---- MODULE Spec2Model ----
(***************************************************************************)
(* The Playwright MCP wrapper of backend/app: the batch operation          *)
(* PlaywrightMcp.multiple_clients (mcp_testing.py) with its semaphore and  *)
(* asyncio.gather fan-out, PlaywrightMcp.single_client with its one shared *)
(* Client, and the single-page operations extract_snapshot,                *)
(* take_screenshot and query_into_search_input (workflows/mcp.py).         *)
(*                                                                         *)
(* One behaviour is one run of one operation on a freshly constructed      *)
(* PlaywrightMcp.  Every await of a remote call is a suspension point: a   *)
(* frame's pc names the call it is suspended in, and the action that       *)
(* resumes it runs the code up to the next await in one step, as the       *)
(* event loop does.  The remote server is opaque: each call either raises  *)
(* or returns one of a small set of results.  Only for single_client does  *)
(* the model keep what the browser of the shared session shows: its        *)
(* current tab and each tab's url, changed when a call returns.            *)
(*                                                                         *)
(* mcp_testing.py binds the name asyncio only under its __main__ guard     *)
(* (line 286); the model is of that entry point, where it is bound.        *)
(***************************************************************************)
EXTENDS Integers, Sequences, FiniteSets, TLC

\* ------------------------------------------------------------ bounds

\* Longest request list handed to multiple_clients.
MaxItems == 2

\* multiple_clients builds asyncio.Semaphore(5).  The limiter binds only on
\* batches longer than its value, so besides the source's value the model
\* also runs the same worker code with the limits 1..MaxLimit.
MaxLimit == 1

\* ------------------------------------------------- program constants

SemaphoreValue == 5

\* _open_page and query_into_search_input wait {"time": 5} after a page load.
WaitSeconds == 5

\* An optional value is a sequence of at most one element.
None == <<>>
Some(v) == <<v>>

\* The Python value None, where a call returns it.
PyNone == "None"

\* ------------------------------------------------------------- data

\* PageItem (TypedDict name, url).
PageItems ==
  { [name |-> "A", url |-> "http://x"], [name |-> "B", url |-> "http://y"] }

\* The lists multiple_clients is called with, up to the renaming of the two
\* items: a list that is not empty starts with A.
Requests ==
  { r \in UNION { [1..n -> PageItems] : n \in 0..MaxItems } :
      Len(r) = 0 \/ r[1].name = "A" }

FileNames == { "A.png", "B.png" }

\* What the directory holds before the run, each file's bytes if it is
\* there: an older A.png and no B.png.
InitialFiles ==
  { [f \in FileNames |-> IF f = "A.png" THEN Some(<<0>>) ELSE None] }

\* Base64 text is a sequence of sextets, Pad standing for "=".
Pad == 64

\* "QQ==", "QUI=", "" and the malformed "QQ".
B64_A == <<16, 16, Pad, Pad>>
B64_AB == <<16, 20, 8, Pad>>
B64_Empty == <<>>
B64_Bad == <<16, 16>>

\* Content items of a tool result (TextContent, ImageContent).  An
\* attribute the item's class does not have is a placeholder that is never
\* read: HasText guards it as the attribute lookup does.
TextItem(t) == [type |-> "text", text |-> t, data |-> <<>>]
ImageItem(d) == [type |-> "image", text |-> "", data |-> d]
HasText(item) == item.type = "text"

\* result.content of browser_take_screenshot, as the server may send it.
ScreenshotContents ==
  { <<>>,
    <<TextItem("no image")>>,
    <<ImageItem(B64_A)>>,
    <<TextItem("note"), ImageItem(B64_AB)>>,
    <<ImageItem(B64_Empty)>>,
    <<ImageItem(B64_Bad)>> }

\* result.content of browser_snapshot.
SnapshotContents ==
  { <<>>, <<TextItem("snap")>>, <<ImageItem(B64_A)>> }

\* -------------------------------------------------- pure functions

\* binascii.Error("Incorrect padding"): the data is not whole quads.
B64Valid(s) == Len(s) % 4 = 0

\* One quad of sextets to its 1..3 bytes.
DecodeQuad(q) ==
  <<q[1] * 4 + q[2] \div 16>>
    \o (IF q[3] = Pad THEN <<>> ELSE <<(q[2] % 16) * 16 + q[3] \div 4>>)
    \o (IF q[3] = Pad \/ q[4] = Pad THEN <<>> ELSE <<(q[3] % 4) * 64 + q[4]>>)

\* base64.b64decode on well-formed data.
RECURSIVE b64decode(_)
b64decode(s) ==
  IF Len(s) = 0
  THEN <<>>
  ELSE DecodeQuad(SubSeq(s, 1, 4)) \o b64decode(SubSeq(s, 5, Len(s)))

\* Index of the first image item of content, 0 when there is none.
FirstImage(content) ==
  IF \E k \in 1..Len(content) : content[k].type = "image"
  THEN CHOOSE k \in 1..Len(content) :
         /\ content[k].type = "image"
         /\ \A j \in 1..(k - 1) : content[j].type # "image"
  ELSE 0

\* _extract_image_bytes raises when the first image item's data is malformed.
ExtractImageRaisesOnMissing(content) ==
  \/ FirstImage(content) = 0
  \/ ~B64Valid(content[FirstImage(content)].data)
ExtractImageRaises(content) ==
  /\ FirstImage(content) # 0
  /\ ~B64Valid(content[FirstImage(content)].data)

\* _extract_image_bytes: the decoded data of the first image item, else None.
ExtractImageBytesRaw(content) ==
  IF FirstImage(content) = 0
  THEN None
  ELSE Some(content[FirstImage(content)].data)
ExtractImageBytes(content) ==
  IF FirstImage(content) = 0
  THEN None
  ELSE Some(b64decode(content[FirstImage(content)].data))

\* _extract_text raises AttributeError when the first item has no text.
ExtractTextRaisesUnguarded(content) ==
  \/ Len(content) = 0
  \/ ~HasText(content[1])
ExtractTextRaises(content) ==
  /\ Len(content) > 0
  /\ ~HasText(content[1])

\* _extract_text: result.content[0].text if result.content else "".
ExtractText(content) ==
  IF Len(content) > 0 THEN content[1].text ELSE ""

\* Python truth of `img`: None and b"" are both false.
Truthy(img) == img # None /\ Len(img[1]) > 0

\* ------------------------------------------------------------ state

Operations ==
  { "multiple_clients", "single_client", "extract_snapshot",
    "take_screenshot", "query_into_search_input" }

\* Arguments of the single-page operations.
ArgsOf(o) ==
  CASE o = "extract_snapshot" ->
         { [page_url |-> "http://x"] }
    [] o = "take_screenshot" ->
         { [page_url |-> "http://x", filename |-> f] : f \in FileNames }
    [] o = "query_into_search_input" ->
         { [page_url |-> "http://x", input_element_ref |-> "e1",
            query_text |-> "q"] }
    [] OTHER -> { [page_url |-> "http://x"] }

VARIABLES
  op,                \* the operation this run calls
  mcp_server_url,    \* PLAYWRIGHT_MCP_URL: os.getenv's value, None when unset
  ctor,              \* PlaywrightMcp(): "init", then "ok" or the error raised
  items,             \* multiple_clients' argument
  args,              \* a single-page operation's arguments
  concurrency_limit, \* the value the semaphore was built with
  sem_value,         \* asyncio.Semaphore._value
  sem_waiters,       \* asyncio.Semaphore._waiters, oldest first
  pc,                \* per frame: the await it is suspended in
  session,           \* per Client: "none", "open" or "closed"
  result,            \* per frame: the local `result`: the tool and its content
  img,               \* per frame: the local `img`, kept after the frame ends
  exc,               \* per frame: the exception propagating out of it
  ret,               \* per frame: the value it returned
  overtaken,         \* a batch task ended before one earlier in the list
  status,            \* the operation's call: "pending", "returned", "raised"
  value,             \* what the operation returned
  files,             \* the directory: file name -> bytes
  n_sessions,        \* sessions opened so far
  n_calls,           \* call_tool calls issued so far
  calls,             \* per frame: the call_tool calls it issued, in order
  client,            \* per frame: its local `client`, the session it uses
  main,              \* single_client's own body: the await it is suspended in
  tab,               \* the browser of the shared session: its current tab
  page               \* the browser of the shared session: each tab's url

vars ==
  << op, mcp_server_url, ctor, items, args, concurrency_limit, sem_value,
     sem_waiters, pc, session, result, img, exc, ret, overtaken, status,
     value, files, n_sessions, n_calls, calls, client, main, tab, page >>

Batch == op = "multiple_clients"

\* single_client: one Client shared by all the tasks.
Shared == op = "single_client"

HasItems == Batch \/ Shared

\* The frames of the run: one task per item, or the one single-page call.
Frames == IF HasItems THEN 1..Len(items) ELSE {1}

\* The Clients of the run: one per frame, or single_client's one.
Sessions == IF Shared THEN {1} ELSE Frames

\* The file a frame's screenshot goes to: item["name"] + ".png", or filename.
Filename(i) == IF Batch THEN items[i].name \o ".png" ELSE args.filename

NoException == "none"

Limits == (1..MaxLimit) \cup {SemaphoreValue}

\* The sessions are numbered; a frame that has not built its Client has none.
NoClient == 0

\* The tabs single_client creates are numbered from 1, tab i being the one
\* its task i selects (tab_index i - 1); before the first there is none.
NoTab == 0

\* self._client() builds a new Client on every call: the one frame i
\* builds is session i.
NewClientCached(i) == 1
NewClient(i) == i

Init ==
  /\ op \in Operations
  /\ mcp_server_url \in {PyNone, "http://mcp"}
  /\ ctor = "init"
  /\ IF op = "multiple_clients"
     THEN /\ items \in Requests
          /\ args = [page_url |-> "http://x"]
          /\ concurrency_limit \in Limits
     ELSE IF op = "single_client"
     THEN /\ items \in Requests
          /\ args = [page_url |-> "http://x"]
          /\ concurrency_limit = SemaphoreValue
     ELSE /\ items = <<>>
          /\ args \in ArgsOf(op)
          /\ concurrency_limit = SemaphoreValue
  /\ sem_value = concurrency_limit
  /\ sem_waiters = <<>>
  /\ pc = [i \in Frames |-> "new"]
  /\ session = [s \in Sessions |-> "none"]
  /\ result = [i \in Frames |-> None]
  /\ img = [i \in Frames |-> None]
  /\ exc = [i \in Frames |-> NoException]
  /\ ret = [i \in Frames |-> None]
  /\ overtaken = FALSE
  /\ status = "pending"
  /\ value = None
  /\ files \in InitialFiles
  /\ n_sessions = 0
  /\ n_calls = 0
  /\ calls = [i \in Frames |-> <<>>]
  /\ client = [i \in Frames |-> NoClient]
  /\ main = IF Shared THEN "new" ELSE "none"
  /\ tab = NoTab
  /\ page = <<>>

\* ---------------------------------------------------- construction

\* StreamableHttpTransport(mcp_server_url) is the library's: handed None it
\* either rejects the value or keeps it until the first connection.
TransportOutcomes(url) ==
  IF url = PyNone THEN {"ok", "ValueError"} ELSE {"ok"}

\* PlaywrightMcp.__init__: the URL goes to the transport unchecked.
Construct ==
  /\ ctor = "init"
  /\ ctor' \in TransportOutcomes(mcp_server_url)
  /\ UNCHANGED << main, tab, page, op, mcp_server_url, items, args, concurrency_limit,
                  sem_value, sem_waiters, pc, session, result, img, exc, ret,
                  overtaken, status, value, files, n_sessions,
                  n_calls, calls, client >>

\* ------------------------------------------------- the semaphore

\* Semaphore.locked(): no permit left, or somebody already queues.
LockedNever == FALSE
Locked == sem_value = 0 \/ sem_waiters # <<>>

\* gather wraps the workers in tasks in argument order and the event loop
\* runs their first steps in that order.
MayStartReversed(i) == \A j \in Frames : j > i => pc[j] # "new"
MayStart(i) == \A j \in Frames : j < i => pc[j] # "new"

\* A batch task's first step, `async with semaphore`: take a permit and go
\* on into process_page_item up to the await of the client's __aenter__,
\* or queue for one.
Start(i) ==
  /\ Batch /\ ctor = "ok"
  /\ pc[i] = "new"
  /\ MayStart(i)
  /\ IF ~Locked
     THEN /\ sem_value' = sem_value - 1
          /\ sem_waiters' = sem_waiters
          /\ pc' = [pc EXCEPT ![i] = "opening"]
          /\ client' = [client EXCEPT ![i] = NewClient(i)]
     ELSE /\ sem_value' = sem_value
          /\ sem_waiters' = Append(sem_waiters, i)
          /\ pc' = [pc EXCEPT ![i] = "waiting"]
          /\ client' = client
  /\ UNCHANGED << main, tab, page, op, mcp_server_url, ctor, items, args, concurrency_limit,
                  session, result, img, exc, ret, overtaken, status, value,
                  files, n_sessions, n_calls, calls >>

\* A task woken with a permit enters process_page_item.
Resume(i) ==
  /\ pc[i] = "woken"
  /\ pc' = [pc EXCEPT ![i] = "opening"]
  /\ client' = [client EXCEPT ![i] = NewClient(i)]
  /\ UNCHANGED << main, tab, page, op, mcp_server_url, ctor, items, args, concurrency_limit,
                  sem_value, sem_waiters, session, result, img, exc, ret,
                  overtaken, status, value, files, n_sessions,
                  n_calls, calls >>

\* A single-page operation is called: up to the await of __aenter__.
Call ==
  /\ ~HasItems /\ ctor = "ok"
  /\ pc[1] = "new"
  /\ pc' = [pc EXCEPT ![1] = "opening"]
  /\ client' = [client EXCEPT ![1] = NewClient(1)]
  /\ UNCHANGED << main, tab, page, op, mcp_server_url, ctor, items, args, concurrency_limit,
                  sem_value, sem_waiters, session, result, img, exc, ret,
                  overtaken, status, value, files, n_sessions,
                  n_calls, calls >>

\* The end of frame i with exception e (or none) and return value r.  A
\* batch task leaves `async with semaphore`: release() hands the permit to
\* the oldest waiter or puts it back; gather sees the task later.  A
\* single-page operation returns or raises to its caller.
EndFrameWakesNobody(i, e, r) ==
  LET end == IF e = NoException THEN "done" ELSE "failed"
  IN IF Batch
     THEN /\ sem_value' = sem_value + 1
          /\ sem_waiters' = sem_waiters
          /\ pc' = [pc EXCEPT ![i] = end]
          /\ overtaken' =
               (overtaken \/ \E j \in Frames :
                               j < i /\ pc[j] \notin {"done", "failed"})
          /\ UNCHANGED << status, value >>
     ELSE /\ pc' = [pc EXCEPT ![i] = end]
          /\ status' = IF e = NoException THEN "returned" ELSE "raised"
          /\ value' = IF e = NoException THEN r ELSE None
          /\ UNCHANGED << sem_value, sem_waiters, overtaken >>
EndFrameKeepsPermitOnError(i, e, r) ==
  LET end == IF e = NoException THEN "done" ELSE "failed"
  IN IF Batch
     THEN /\ IF e # NoException
             THEN /\ sem_value' = sem_value
                  /\ sem_waiters' = sem_waiters
                  /\ pc' = [pc EXCEPT ![i] = end]
             ELSE IF sem_waiters = <<>>
             THEN /\ sem_value' = sem_value + 1
                  /\ sem_waiters' = sem_waiters
                  /\ pc' = [pc EXCEPT ![i] = end]
             ELSE /\ sem_value' = sem_value
                  /\ sem_waiters' = Tail(sem_waiters)
                  /\ pc' = [pc EXCEPT ![i] = end,
                                       ![Head(sem_waiters)] = "woken"]
          /\ overtaken' =
               (overtaken \/ \E j \in Frames :
                               j < i /\ pc[j] \notin {"done", "failed"})
          /\ UNCHANGED << status, value >>
     ELSE /\ pc' = [pc EXCEPT ![i] = end]
          /\ status' = IF e = NoException THEN "returned" ELSE "raised"
          /\ value' = IF e = NoException THEN r ELSE None
          /\ UNCHANGED << sem_value, sem_waiters, overtaken >>
EndFrame(i, e, r) ==
  LET end == IF e = NoException THEN "done" ELSE "failed"
  IN IF Batch
     THEN /\ IF sem_waiters = <<>>
             THEN /\ sem_value' = sem_value + 1
                  /\ sem_waiters' = sem_waiters
                  /\ pc' = [pc EXCEPT ![i] = end]
             ELSE /\ sem_value' = sem_value
                  /\ sem_waiters' = Tail(sem_waiters)
                  /\ pc' = [pc EXCEPT ![i] = end,
                                       ![Head(sem_waiters)] = "woken"]
          /\ overtaken' =
               (overtaken \/ \E j \in Frames :
                               j < i /\ pc[j] \notin {"done", "failed"})
          /\ UNCHANGED << status, value >>
     ELSE /\ pc' = [pc EXCEPT ![i] = end]
          /\ status' = IF e = NoException THEN "returned" ELSE "raised"
          /\ value' = IF e = NoException THEN r ELSE None
          /\ UNCHANGED << sem_value, sem_waiters, overtaken >>

\* ------------------------------------------------- the session

\* The page a frame opens: item["url"], or page_url.
Url(i) == IF HasItems THEN items[i].url ELSE args.page_url

\* The call_tool call frame i is suspended in at pc value p: the tool and
\* the arguments the code passes.
CallOf(i, p) ==
  CASE p \in {"navigate", "tab_navigate"} ->
         [tool |-> "browser_navigate", url |-> Url(i)]
    [] p \in {"wait", "wait_again", "tab_wait"} ->
         [tool |-> "browser_wait_for", time |-> WaitSeconds]
    [] p = "screenshot" -> [tool |-> "browser_take_screenshot", type |-> "png"]
    [] p \in {"snapshot", "tab_snapshot"} -> [tool |-> "browser_snapshot"]
    [] p = "click" ->
         [tool |-> "browser_click", ref |-> args.input_element_ref,
          element |-> "search input"]
    [] p = "type" ->
         [tool |-> "browser_type", ref |-> args.input_element_ref,
          element |-> "search input", text |-> args.query_text]
    [] p = "press_key" -> [tool |-> "browser_press_key", key |-> "Enter"]
    [] p = "select" ->
         [tool |-> "browser_tabs", action |-> "select", index |-> i - 1]

\* call_tool is entered: the call joins the frame's calls.
Issued(i, p) == [calls EXCEPT ![i] = Append(@, CallOf(i, p))]

\* `async with await self._client() as client`: __aenter__ returned, and
\* _open_page issues browser_navigate.
Opened(i) ==
  /\ pc[i] = "opening"
  /\ mcp_server_url # PyNone
  /\ session' = [session EXCEPT ![client[i]] = "open"]
  /\ n_sessions' = n_sessions + 1
  /\ n_calls' = n_calls + 1
  /\ calls' = Issued(i, "navigate")
  /\ pc' = [pc EXCEPT ![i] = "navigate"]
  /\ UNCHANGED << main, tab, page, op, mcp_server_url, ctor, items, args, concurrency_limit,
                  sem_value, sem_waiters, result, img, exc, ret, overtaken,
                  status, value, files, client >>

\* __aenter__ raised: there is no client to close, the frame ends.
OpenFails(i) ==
  /\ pc[i] = "opening"
  /\ exc' = [exc EXCEPT ![i] = "Exception"]
  /\ EndFrame(i, "Exception", None)
  /\ UNCHANGED << main, tab, page, op, mcp_server_url, ctor, items, args, concurrency_limit,
                  session, result, img, ret, files, n_sessions,
                  n_calls, calls, client >>

\* The awaits of call_tool a frame may be suspended in.
ToolPcs ==
  { "navigate", "wait", "screenshot", "snapshot", "click", "type",
    "press_key", "wait_again" }

\* call_tool raised: the exception leaves the `async with` body, whose
\* __aexit__ closes the client before it propagates.
CallRaisesLeak(i) ==
  /\ pc[i] \in ToolPcs
  /\ exc' = [exc EXCEPT ![i] = "Exception"]
  /\ result' = [result EXCEPT ![i] = None]
  /\ EndFrame(i, "Exception", None)
  /\ UNCHANGED << main, tab, page, op, mcp_server_url, ctor, items, args, concurrency_limit,
                  session, img, ret, files, n_sessions, n_calls, calls, client >>
CallRaises(i) ==
  /\ pc[i] \in ToolPcs
  /\ exc' = [exc EXCEPT ![i] = "Exception"]
  /\ pc' = [pc EXCEPT ![i] = "closing"]
  /\ UNCHANGED << main, tab, page, op, mcp_server_url, ctor, items, args, concurrency_limit,
                  sem_value, sem_waiters, session, result, img, ret,
                  overtaken, status, value, files, n_sessions,
                  n_calls, calls, client >>

\* __aexit__ returned: the session is closed and the frame ends, with the
\* body's return value or its exception.
Closed(i) ==
  /\ pc[i] = "closing"
  /\ session' = [session EXCEPT ![client[i]] = "closed"]
  /\ result' = [result EXCEPT ![i] = None]
  /\ EndFrame(i, exc[i], ret[i])
  /\ UNCHANGED << main, tab, page, op, mcp_server_url, ctor, items, args, concurrency_limit,
                  img, exc, ret, files, n_sessions, n_calls, calls, client >>

\* ---------------------------------------------------- the tool calls

\* A step that only issues the next call_tool: the frame moves to `next`.
IssueNext(i, next) ==
  /\ pc' = [pc EXCEPT ![i] = next]
  /\ n_calls' = n_calls + 1
  /\ calls' = Issued(i, next)
  /\ UNCHANGED << main, tab, page, op, mcp_server_url, ctor, items, args, concurrency_limit,
                  sem_value, sem_waiters, session, result, img, exc, ret,
                  overtaken, status, value, files, n_sessions, client >>

\* _open_page: browser_navigate returned, browser_wait_for is issued.
NavigateReturnsSkipsWait(i) ==
  /\ pc[i] = "navigate"
  /\ IssueNext(i, IF op = "extract_snapshot" THEN "snapshot" ELSE "wait")
NavigateReturns(i) ==
  /\ pc[i] = "navigate"
  /\ IssueNext(i, "wait")

\* The call each operation issues after _open_page.
AfterOpenPageSnapshotFirst ==
  CASE op = "multiple_clients" -> "snapshot"
    [] op = "take_screenshot" -> "screenshot"
    [] op = "extract_snapshot" -> "snapshot"
    [] op = "query_into_search_input" -> "click"
AfterOpenPage ==
  CASE op = "multiple_clients" -> "screenshot"
    [] op = "take_screenshot" -> "screenshot"
    [] op = "extract_snapshot" -> "snapshot"
    [] op = "query_into_search_input" -> "click"

\* _open_page: browser_wait_for returned, and the operation's next call.
WaitReturns(i) ==
  /\ pc[i] = "wait"
  /\ IssueNext(i, AfterOpenPage)

\* query_into_search_input: browser_click, browser_type,
\* browser_press_key, browser_wait_for, then browser_snapshot.
ClickReturnsPressesKey(i) ==
  /\ pc[i] = "click"
  /\ IssueNext(i, "press_key")
ClickReturns(i) ==
  /\ pc[i] = "click"
  /\ IssueNext(i, "type")

TypeReturns(i) ==
  /\ pc[i] = "type"
  /\ IssueNext(i, "press_key")

PressKeyReturns(i) ==
  /\ pc[i] = "press_key"
  /\ IssueNext(i, "wait_again")

WaitAgainReturns(i) ==
  /\ pc[i] = "wait_again"
  /\ IssueNext(i, "snapshot")

\* `with open(filename, "wb") as f: f.write(img)`: the file is truncated
\* and gets the bytes, with no await from open to close.
WrittenAppended(old, bytes) ==
  IF old = None THEN bytes ELSE Some(old[1] \o bytes[1])
Written(old, bytes) == bytes

\* browser_take_screenshot returned content c: _extract_image_bytes, the
\* write of the file if img is true, then browser_snapshot (the batch task)
\* or the end of the body (take_screenshot).
ScreenshotReturns(i) ==
  /\ pc[i] = "screenshot"
  /\ \E c \in ScreenshotContents :
       /\ result' = [result EXCEPT
                       ![i] = Some([tool |-> "browser_take_screenshot",
                                    content |-> c])]
       /\ IF ExtractImageRaises(c)
          THEN /\ exc' = [exc EXCEPT ![i] = "Exception"]
               /\ pc' = [pc EXCEPT ![i] = "closing"]
               /\ UNCHANGED << img, files, ret, n_calls, calls, client >>
          ELSE /\ img' = [img EXCEPT ![i] = ExtractImageBytes(c)]
               /\ IF Truthy(img'[i])
                  THEN files' = [files EXCEPT
                                  ![Filename(i)] = Written(@, img'[i])]
                  ELSE files' = files
               /\ IF Batch
                  THEN /\ n_calls' = n_calls + 1
                       /\ calls' = Issued(i, "snapshot")
                       /\ pc' = [pc EXCEPT ![i] = "snapshot"]
                       /\ ret' = ret
                  ELSE /\ n_calls' = n_calls
                       /\ calls' = calls
                       /\ pc' = [pc EXCEPT ![i] = "closing"]
                       /\ ret' = [ret EXCEPT ![i] = Some(PyNone)]
               /\ exc' = exc
  /\ UNCHANGED << main, tab, page, op, mcp_server_url, ctor, items, args, concurrency_limit,
                  sem_value, sem_waiters, session, overtaken, status, value,
                  n_sessions, client >>

\* What the body returns after its snapshot: the PageItemResult, or the text.
ReturnedLateBound(i, text) ==
  IF Batch
  THEN [name |-> items[Len(items)].name, url |-> items[Len(items)].url,
        snapshot |-> text]
  ELSE text
Returned(i, text) ==
  IF HasItems
  THEN [name |-> items[i].name, url |-> items[i].url, snapshot |-> text]
  ELSE text

\* browser_snapshot returned content c: _extract_text and the return.
SnapshotReturns(i) ==
  /\ pc[i] = "snapshot"
  /\ \E c \in SnapshotContents :
       /\ result' = [result EXCEPT
                       ![i] = Some([tool |-> "browser_snapshot",
                                    content |-> c])]
       /\ IF ExtractTextRaises(c)
          THEN /\ exc' = [exc EXCEPT ![i] = "Exception"]
               /\ ret' = ret
          ELSE /\ ret' = [ret EXCEPT ![i] = Some(Returned(i, ExtractText(c)))]
               /\ exc' = exc
  /\ pc' = [pc EXCEPT ![i] = "closing"]
  /\ UNCHANGED << main, tab, page, op, mcp_server_url, ctor, items, args, concurrency_limit,
                  sem_value, sem_waiters, session, img, overtaken, status,
                  value, files, n_sessions, n_calls, calls, client >>

\* ------------------------------------------------------------ gather

\* The list gather returns: the tasks' results in argument order.
GatherResults == [i \in 1..Len(items) |-> ret[i][1]]

\* asyncio.gather's future resolves when every task has returned ...
GatherReturnExceptions ==
  /\ Batch /\ ctor = "ok"
  /\ status = "pending"
  /\ \A i \in Frames : pc[i] \in {"done", "failed"}
  /\ status' = "returned"
  /\ value' = Some([i \in 1..Len(items) |->
                     IF ret[i] # None THEN ret[i][1] ELSE [error |-> exc[i]]])
  /\ UNCHANGED << main, tab, page, op, mcp_server_url, ctor, items, args, concurrency_limit,
                  sem_value, sem_waiters, pc, session, result, img, exc, ret,
                  overtaken, files, n_sessions, n_calls, calls, client >>
GatherReturnNonEmpty ==
  /\ Batch /\ ctor = "ok"
  /\ status = "pending"
  /\ \A i \in Frames : pc[i] = "done"
  /\ status' = IF items = <<>> THEN "raised" ELSE "returned"
  /\ value' = IF items = <<>> THEN None ELSE Some(GatherResults)
  /\ UNCHANGED << main, tab, page, op, mcp_server_url, ctor, items, args, concurrency_limit,
                  sem_value, sem_waiters, pc, session, result, img, exc, ret,
                  overtaken, files, n_sessions, n_calls, calls, client >>
GatherReturn ==
  /\ Batch /\ ctor = "ok"
  /\ status = "pending"
  /\ \A i \in Frames : pc[i] = "done"
  /\ status' = "returned"
  /\ value' = Some(GatherResults)
  /\ UNCHANGED << main, tab, page, op, mcp_server_url, ctor, items, args, concurrency_limit,
                  sem_value, sem_waiters, pc, session, result, img, exc, ret,
                  overtaken, files, n_sessions, n_calls, calls, client >>

\* ... or fails as soon as one task has raised; the other tasks are not
\* cancelled and run on.
GatherRaise ==
  /\ Batch /\ ctor = "ok"
  /\ status = "pending"
  /\ \E i \in Frames : pc[i] = "failed"
  /\ status' = "raised"
  /\ value' = None
  /\ UNCHANGED << main, tab, page, op, mcp_server_url, ctor, items, args, concurrency_limit,
                  sem_value, sem_waiters, pc, session, result, img, exc, ret,
                  overtaken, files, n_sessions, n_calls, calls, client >>

\* ----------------------------------------------------- single_client

\* What the frames' variables do in a step of single_client's own body.
BodyStep ==
  UNCHANGED << op, mcp_server_url, ctor, items, args, concurrency_limit,
               sem_value, sem_waiters, pc, result, img, exc, ret, overtaken,
               files, calls, client >>

\* What the rest does in a step of one of single_client's tasks.
TaskStepShared ==
  UNCHANGED << op, mcp_server_url, ctor, items, args, concurrency_limit,
               sem_value, sem_waiters, session, img, overtaken, status,
               value, files, n_sessions, main >>

\* single_client is called: up to the await of the client's __aenter__.
CallShared ==
  /\ Shared /\ ctor = "ok"
  /\ main = "new"
  /\ main' = "opening"
  /\ UNCHANGED << session, status, value, n_sessions, n_calls, tab, page >>
  /\ BodyStep

\* __aenter__ returned: step 1 issues the first browser_tabs "new"; with
\* no item there is no tab and no task, gather() is done at once with []
\* and the body returns.
OpenedShared ==
  /\ main = "opening"
  /\ mcp_server_url # PyNone
  /\ session' = [session EXCEPT ![1] = "open"]
  /\ n_sessions' = n_sessions + 1
  /\ IF items = <<>>
     THEN main' = "returning" /\ n_calls' = n_calls
     ELSE main' = "tabs" /\ n_calls' = n_calls + 1
  /\ UNCHANGED << status, value, tab, page >>
  /\ BodyStep

\* __aenter__ raised: single_client raises.
OpenFailsShared ==
  /\ main = "opening"
  /\ main' = "done"
  /\ status' = "raised"
  /\ UNCHANGED << session, value, n_sessions, n_calls, tab, page >>
  /\ BodyStep

\* browser_tabs "new" returned: the browser has one tab more and shows it.
\* The loop issues the next "new"; after the last, step 2 creates the
\* tasks and the body awaits gather.
TabCreated ==
  /\ main = "tabs"
  /\ page' = Append(page, "about:blank")
  /\ tab' = Len(page) + 1
  /\ IF Len(page) + 1 < Len(items)
     THEN main' = "tabs" /\ n_calls' = n_calls + 1
     ELSE main' = "gather" /\ n_calls' = n_calls
  /\ UNCHANGED << session, status, value, n_sessions >>
  /\ BodyStep

\* browser_tabs "new" raised: the exception leaves the `async with` body.
TabCreateRaises ==
  /\ main = "tabs"
  /\ main' = "raising"
  /\ UNCHANGED << session, status, value, n_sessions, n_calls, tab, page >>
  /\ BodyStep

\* The pcs of a task of single_client suspended in call_tool.
SharedPcs == { "select", "tab_navigate", "tab_wait", "tab_snapshot" }

\* A task's first step, in creation order once the body awaits gather:
\* it issues browser_tabs "select" with its tab_index on the shared client.
StartShared(i) ==
  /\ main = "gather"
  /\ pc[i] = "new"
  /\ MayStart(i)
  /\ pc' = [pc EXCEPT ![i] = "select"]
  /\ client' = [client EXCEPT ![i] = 1]
  /\ calls' = Issued(i, "select")
  /\ n_calls' = n_calls + 1
  /\ UNCHANGED << result, exc, ret, tab, page >>
  /\ TaskStepShared

\* The task's next call is issued: it moves to `next`.
IssueNextShared(i, next) ==
  /\ pc' = [pc EXCEPT ![i] = next]
  /\ calls' = Issued(i, next)
  /\ n_calls' = n_calls + 1
  /\ UNCHANGED << result, exc, ret, client >>
  /\ TaskStepShared

\* browser_tabs "select" returned: the browser shows the task's tab;
\* _open_page issues browser_navigate.
SelectReturns(i) ==
  /\ pc[i] = "select"
  /\ session[1] = "open"
  /\ tab' = i
  /\ page' = page
  /\ IssueNextShared(i, "tab_navigate")

\* browser_navigate returned: the browser's current tab shows the url;
\* _open_page issues browser_wait_for.
NavigateReturnsShared(i) ==
  /\ pc[i] = "tab_navigate"
  /\ session[1] = "open"
  /\ page' = [page EXCEPT ![tab] = Url(i)]
  /\ tab' = tab
  /\ IssueNextShared(i, "tab_wait")

\* browser_wait_for returned: browser_snapshot is issued.
WaitReturnsShared(i) ==
  /\ pc[i] = "tab_wait"
  /\ session[1] = "open"
  /\ UNCHANGED << tab, page >>
  /\ IssueNextShared(i, "tab_snapshot")

\* The text of the snapshot of a tab showing url u.
SnapshotOf(u) == "page " \o u

\* browser_snapshot returned, with the browser's current tab: _extract_text
\* and the task's return.
SnapshotReturnsShared(i) ==
  /\ pc[i] = "tab_snapshot"
  /\ session[1] = "open"
  /\ LET c == << TextItem(SnapshotOf(page[tab])) >>
     IN /\ result' = [result EXCEPT
                        ![i] = Some([tool |-> "browser_snapshot",
                                     content |-> c])]
        /\ ret' = [ret EXCEPT ![i] = Some(Returned(i, ExtractText(c)))]
  /\ pc' = [pc EXCEPT ![i] = "done"]
  /\ UNCHANGED << exc, calls, client, n_calls, tab, page >>
  /\ TaskStepShared

\* call_tool raised in a task, as it does on a closed client: the task
\* ends with the exception.
CallRaisesShared(i) ==
  /\ pc[i] \in SharedPcs
  /\ exc' = [exc EXCEPT ![i] = "Exception"]
  /\ pc' = [pc EXCEPT ![i] = "failed"]
  /\ UNCHANGED << result, ret, calls, client, n_calls, tab, page >>
  /\ TaskStepShared

\* gather returned the tasks' results: the body returns them, into the
\* client's __aexit__.
GatherReturnShared ==
  /\ main = "gather"
  /\ \A i \in Frames : pc[i] = "done"
  /\ main' = "returning"
  /\ UNCHANGED << session, status, value, n_sessions, n_calls, tab, page >>
  /\ BodyStep

\* gather raised a task's exception: it leaves the body, into __aexit__;
\* the other tasks are not cancelled.
GatherRaiseShared ==
  /\ main = "gather"
  /\ \E i \in Frames : pc[i] = "failed"
  /\ main' = "raising"
  /\ UNCHANGED << session, status, value, n_sessions, n_calls, tab, page >>
  /\ BodyStep

\* __aexit__ returned: the shared session is closed and single_client
\* returns the results or raises.
ClosedShared ==
  /\ main \in {"returning", "raising"}
  /\ session' = [session EXCEPT ![1] = "closed"]
  /\ main' = "done"
  /\ status' = IF main = "returning" THEN "returned" ELSE "raised"
  /\ value' = IF main = "returning" THEN Some(GatherResults) ELSE None
  /\ UNCHANGED << n_sessions, n_calls, tab, page >>
  /\ BodyStep

\* ------------------------------------------------------ specification

Next ==
  \/ Construct
  \/ Call
  \/ \E i \in Frames : Start(i)
  \/ \E i \in Frames : Resume(i)
  \/ \E i \in Frames : Opened(i)
  \/ \E i \in Frames : OpenFails(i)
  \/ \E i \in Frames : NavigateReturns(i)
  \/ \E i \in Frames : WaitReturns(i)
  \/ \E i \in Frames : ClickReturns(i)
  \/ \E i \in Frames : TypeReturns(i)
  \/ \E i \in Frames : PressKeyReturns(i)
  \/ \E i \in Frames : WaitAgainReturns(i)
  \/ \E i \in Frames : ScreenshotReturns(i)
  \/ \E i \in Frames : SnapshotReturns(i)
  \/ \E i \in Frames : CallRaises(i)
  \/ \E i \in Frames : Closed(i)
  \/ GatherReturn
  \/ GatherRaise
  \/ CallShared
  \/ OpenedShared
  \/ OpenFailsShared
  \/ TabCreated
  \/ TabCreateRaises
  \/ \E i \in Frames : StartShared(i)
  \/ \E i \in Frames : SelectReturns(i)
  \/ \E i \in Frames : NavigateReturnsShared(i)
  \/ \E i \in Frames : WaitReturnsShared(i)
  \/ \E i \in Frames : SnapshotReturnsShared(i)
  \/ \E i \in Frames : CallRaisesShared(i)
  \/ GatherReturnShared
  \/ GatherRaiseShared
  \/ ClosedShared

Spec == Init /\ [][Next]_vars

\* The steps of frame i.
FrameStep(i) ==
  /\ i \in Frames
  /\ \/ Start(i) \/ Resume(i) \/ Opened(i) \/ OpenFails(i)
     \/ NavigateReturns(i) \/ WaitReturns(i) \/ ClickReturns(i)
     \/ TypeReturns(i) \/ PressKeyReturns(i) \/ WaitAgainReturns(i)
     \/ ScreenshotReturns(i) \/ SnapshotReturns(i) \/ CallRaises(i)
     \/ Closed(i)
     \/ StartShared(i) \/ SelectReturns(i) \/ NavigateReturnsShared(i)
     \/ WaitReturnsShared(i) \/ SnapshotReturnsShared(i)
     \/ CallRaisesShared(i)

\* The steps of the operation's own coroutine.
BodySteps ==
  \/ Construct \/ Call \/ GatherReturn \/ GatherRaise
  \/ CallShared \/ OpenedShared \/ OpenFailsShared \/ TabCreated
  \/ TabCreateRaises \/ GatherReturnShared \/ GatherRaiseShared
  \/ ClosedShared

\* The run in which every remote call in flight ends, with a result or
\* with an exception, and the event loop runs every coroutine that is
\* ready: no frame and no body stays for ever before a step it can take.
FairSpec ==
  /\ Spec
  /\ \A i \in 1..MaxItems : WF_vars(FrameStep(i))
  /\ WF_vars(BodySteps)

\* ------------------------------------------------------------ claims

Ended(i) == pc[i] \in {"done", "failed"}

OpenSessions == { i \in Frames : session[i] = "open" }

\* C1: in the batch operation the number of sessions open at the same
\* instant never exceeds the limit the semaphore was built with.
C1_OpenSessionsWithinLimit ==
  Batch => Cardinality(OpenSessions) <= concurrency_limit

\* The limit is reached while another task queues for a permit.
C1_Witness ==
  /\ Batch
  /\ Cardinality(OpenSessions) = concurrency_limit
  /\ \E i \in Frames : pc[i] = "waiting"

\* C2: a batch that returns, returns as many results as there were
\* requests, the result at position i carrying the name and url of request
\* i, in whatever order the tasks ended.
C2_ResultsAligned ==
  (Batch /\ status = "returned") =>
    /\ Len(value[1]) = Len(items)
    /\ \A i \in 1..Len(items) :
         /\ value[1][i].name = items[i].name
         /\ value[1][i].url = items[i].url

\* A batch of two different requests returned after the second ended first.
C2_Witness ==
  /\ Batch /\ status = "returned"
  /\ overtaken
  /\ Len(items) >= 2
  /\ items[1] # items[2]

\* C3: a batch task that has ended, with a result or with a failure at any
\* step, has no session left open.
C3_SessionReleased ==
  \A i \in Frames : (Batch /\ Ended(i)) => session[i] # "open"

\* A task failed after it had opened its session, which is closed.
C3_Witness ==
  \E i \in Frames : Batch /\ pc[i] = "failed" /\ session[i] = "closed"

\* C4: once a call has failed in one task the batch never returns results:
\* when that task has ended the caller can be handed the failure, and a
\* batch that raised carries no value.
C4_FailureAbortsBatch ==
  Batch =>
    /\ (\E i \in Frames : exc[i] # NoException) => status # "returned"
    /\ ((\E i \in Frames : pc[i] = "failed") /\ status = "pending")
         => ENABLED GatherRaise
    /\ status = "raised" =>
         (value = None /\ \E i \in Frames : pc[i] = "failed")

\* The batch raised although one of its items had succeeded.
C4_Witness ==
  /\ Batch /\ status = "raised"
  /\ \E i \in Frames : pc[i] = "done"

\* C5: the batch operation on an empty list opens no session, issues no
\* tool call and can only return the empty sequence.
C5_EmptyBatch ==
  (Batch /\ items = <<>>) =>
    /\ n_sessions = 0
    /\ n_calls = 0
    /\ status \in {"pending", "returned"}
    /\ status = "returned" => value = Some(<<>>)
    /\ (ctor = "ok" /\ status = "pending") => ENABLED GatherReturn

\* The empty batch has returned.
C5_Witness ==
  Batch /\ items = <<>> /\ status = "returned"

EmptySnapshot == Some([tool |-> "browser_snapshot", content |-> <<>>])

\* C7: a frame whose browser_snapshot call returned no content raises
\* nothing and returns the empty string as its snapshot, in the batch task,
\* in extract_snapshot and in query_into_search_input.
C7_NoContentIsEmptyString ==
  \A i \in Frames :
    result[i] = EmptySnapshot =>
      /\ exc[i] = NoException
      /\ ret[i] # None
      /\ IF Batch THEN ret[i][1].snapshot = "" ELSE ret[i][1] = ""

\* A batch task holds a snapshot result without content.
C7_Witness ==
  \E i \in Frames : Batch /\ result[i] = EmptySnapshot /\ pc[i] = "closing"

NoImageItem(content) == \A k \in 1..Len(content) : content[k].type # "image"

\* C8: the step in which browser_take_screenshot returns a result without
\* an image item writes no file and raises nothing: the batch task goes on
\* to its snapshot call, take_screenshot to the end of its body.
C8_NoImageNoFile ==
  [][\A i \in Frames :
       (/\ pc[i] = "screenshot"
        /\ result'[i] # None
        /\ NoImageItem(result'[i][1].content))
       => /\ files' = files
          /\ img'[i] = None
          /\ exc'[i] = NoException
          /\ pc'[i] = IF Batch THEN "snapshot" ELSE "closing"]_vars

\* A batch task is in its snapshot call after a screenshot without image.
C8_Witness ==
  \E i \in Frames :
    /\ Batch /\ pc[i] = "snapshot"
    /\ result[i] = Some([tool |-> "browser_take_screenshot",
                         content |-> <<TextItem("no image")>>])

\* The bytes each base64 text of the model stands for.
ExpectedBytes(d) ==
  CASE d = B64_A -> <<65>>
    [] d = B64_AB -> <<65, 66>>
    [] d = B64_Empty -> <<>>

\* The frames that wrote the same file as frame i.
SameFile(i) ==
  { j \in Frames : Filename(j) = Filename(i) /\ Truthy(img[j]) }

\* C9 as claimed: after a task whose screenshot returned image bytes, the
\* file named after its request holds that request's decoded payload.
C9_FileHoldsOwnPayload ==
  \A i \in Frames :
    (Batch /\ Ended(i) /\ Truthy(img[i])) => files[Filename(i)] = img[i]

\* C9, amended: img is the decoded payload of the screenshot's first image
\* item, and from the write on the file named after the request holds the
\* payload of a request of that name: this request's when no other request
\* of the batch has its name.
C9_FileHoldsPayloadOfName ==
  \A i \in Frames :
    /\ (/\ result[i] # None
        /\ result[i][1].tool = "browser_take_screenshot"
        /\ ~NoImageItem(result[i][1].content)
        /\ exc[i] = NoException)
       => img[i] = Some(ExpectedBytes(
                     result[i][1].content[FirstImage(result[i][1].content)].data))
    /\ Truthy(img[i]) =>
         /\ files[Filename(i)] \in { img[j] : j \in SameFile(i) }
         /\ (\A j \in Frames : Filename(j) = Filename(i) => j = i)
              => files[Filename(i)] = img[i]

\* A task has ended whose payload replaced the older A.png.
C9_Witness ==
  \E i \in Frames :
    /\ Batch /\ pc[i] = "done"
    /\ Filename(i) = "A.png"
    /\ img[i] = Some(<<65, 66>>)
    /\ files["A.png"] = Some(<<65, 66>>)

\* C10 as claimed: with the server URL unset the constructor raises a
\* ConfigurationError.
C10_MissingUrlIsConfigurationError ==
  (mcp_server_url = PyNone /\ ctor # "init") => ctor = "ConfigurationError"

\* s is a prefix of t.
IsPrefix(s, t) == Len(s) <= Len(t) /\ \A k \in 1..Len(s) : s[k] = t[k]

Search == op = "query_into_search_input"

\* The calls of one search, as the claim lists them.
SearchCalls ==
  << [tool |-> "browser_navigate", url |-> args.page_url],
     [tool |-> "browser_wait_for", time |-> 5],
     [tool |-> "browser_click", ref |-> args.input_element_ref,
      element |-> "search input"],
     [tool |-> "browser_type", ref |-> args.input_element_ref,
      element |-> "search input", text |-> args.query_text],
     [tool |-> "browser_press_key", key |-> "Enter"],
     [tool |-> "browser_wait_for", time |-> 5],
     [tool |-> "browser_snapshot"] >>

\* The search's calls so far are the first calls of the list, all issued
\* while its one session is open; it returns only after all seven, and what
\* it returns is the text of the last snapshot.
SearchInOrder ==
  Search =>
    /\ IsPrefix(calls[1], SearchCalls)
    /\ n_sessions <= 1
    /\ calls[1] # <<>> => session[1] # "none"
    /\ pc[1] \in ToolPcs => session[1] = "open"
    /\ (pc[1] = "closing" /\ exc[1] = NoException) =>
         /\ calls[1] = SearchCalls
         /\ result[1] # None /\ result[1][1].tool = "browser_snapshot"
         /\ ret[1] = Some(IF result[1][1].content = <<>> THEN ""
                          ELSE result[1][1].content[1].text)
    /\ status = "returned" => calls[1] = SearchCalls /\ value = ret[1]

\* Once a call of the search has failed, the search issues no other call.
SearchStopsOnFailure ==
  (Search /\ exc[1] # NoException) => calls' = calls

\* C11: a search issues, on one session, navigate, wait, click on the
\* reference, type into the same reference, press "Enter", wait and
\* snapshot, in this order, and returns the text of that snapshot; after a
\* call has failed no later call is issued.
C11_SearchCallOrder == []SearchInOrder /\ [][SearchStopsOnFailure]_vars

\* A search that ran through all seven calls and returned.
C11_Witness ==
  Search /\ status = "returned" /\ Len(calls[1]) = 7 /\ value # Some("")

\* The tasks inside `async with semaphore`: past acquire, not yet past
\* release.  A task woken by release already has the releaser's permit.
Holders ==
  { i \in Frames :
      pc[i] \in {"woken", "opening", "closing"} \cup ToolPcs }

\* C12: in every state of a batch the permits available and the tasks
\* holding one add up to the limit, and once every task has ended, with a
\* result or with an exception, all the permits are available again.
C12_PermitsConserved ==
  Batch =>
    /\ sem_value + Cardinality(Holders) = concurrency_limit
    /\ (\A i \in Frames : Ended(i)) => sem_value = concurrency_limit

\* Two tasks shared one permit; one failed, one returned, both released.
C12_Witness ==
  /\ Batch /\ Len(items) = 2 /\ concurrency_limit = 1
  /\ pc[1] = "failed" /\ pc[2] = "done"
  /\ sem_value = 1

\* The calls of one batch task, as the claim lists them.
TaskCalls(i) ==
  << [tool |-> "browser_navigate", url |-> items[i].url],
     [tool |-> "browser_wait_for", time |-> 5],
     [tool |-> "browser_take_screenshot", type |-> "png"],
     [tool |-> "browser_snapshot"] >>

\* Where task i is in its steps: its calls so far are the first of the
\* list, issued on its open session, the one in flight is the last of
\* them, and it has returned only after all four and the close.
TaskInOrder(i) ==
  /\ IsPrefix(calls[i], TaskCalls(i))
  /\ calls[i] # <<>> => session[i] # "none"
  /\ pc[i] \in ToolPcs =>
       /\ session[i] = "open"
       /\ calls[i] # <<>>
       /\ calls[i][Len(calls[i])] = CallOf(i, pc[i])
  /\ session[i] = "open" => i \in Holders
  /\ Truthy(img[i]) => Len(calls[i]) >= 3
  /\ pc[i] = "done" => calls[i] = TaskCalls(i) /\ session[i] = "closed"

\* One step of task i: its session is opened and closed only while it
\* holds a permit, never reopened, and a step issues at most one call.
TaskStep(i) ==
  /\ session'[i] # session[i] =>
       /\ i \in Holders
       /\ << session[i], session'[i] >> \in
            { << "none", "open" >>, << "open", "closed" >> }
  /\ Len(calls'[i]) <= Len(calls[i]) + 1
  /\ (pc[i] \in ToolPcs /\ calls'[i] # calls[i]) => pc'[i] # pc[i]

\* A file is written only by the step in which a screenshot call returns
\* image bytes.
WriteOnlyAfterScreenshot ==
  files' # files =>
    \E i \in Frames :
      /\ pc[i] = "screenshot" /\ pc'[i] # "screenshot"
      /\ Truthy(img'[i])
      /\ files' = [files EXCEPT ![Filename(i)] = img'[i]]

\* C13: a batch task opens its session, navigates, waits, takes the
\* screenshot (writing the file only if it has image bytes), takes the
\* snapshot and closes the session, each step after the one before has
\* returned, holding its permit from before the open until after the close.
C13_TaskStepOrder ==
  /\ [](Batch => \A i \in Frames : TaskInOrder(i))
  /\ [][Batch => /\ \A i \in Frames : TaskStep(i)
                 /\ WriteOnlyAfterScreenshot]_vars

\* A task that went through all its steps, the file write included, while
\* another one queued for its permit.
C13_Witness ==
  /\ Batch /\ Len(items) = 2
  /\ pc[1] = "done" /\ Truthy(img[1]) /\ Len(calls[1]) = 4
  /\ pc[2] = "woken"

\* The tasks that have issued a call on session s.
Callers(s) == { i \in Frames : client[i] = s /\ calls[i] # <<>> }

\* Task i has a session of its own: no other task has the same Client, its
\* calls went to a session that was opened, and the sessions opened are as
\* many as the Clients that left the state "none".
OwnSession(i) ==
  /\ client[i] # NoClient =>
       \A j \in Frames \ {i} : client[j] # client[i]
  /\ calls[i] # <<>> =>
       /\ client[i] # NoClient
       /\ session[client[i]] # "none"
       /\ Callers(client[i]) = {i}

\* A task keeps the Client it has built.
KeepsClient(i) == client[i] # NoClient => client'[i] = client[i]

\* C14: in the batch operation every task issues its calls on the session
\* it opened itself; no session gets calls from two tasks, and no task's
\* session is passed on to another task.
C14_SessionPerTask ==
  /\ [](Batch =>
         /\ \A i \in Frames : OwnSession(i)
         /\ \A s \in Frames : Cardinality(Callers(s)) <= 1
         /\ n_sessions = Cardinality({ s \in Frames : session[s] # "none" }))
  /\ [][Batch => \A i \in Frames : KeepsClient(i)]_vars

\* Two tasks with a call in flight at the same time, each on its session.
C14_Witness ==
  /\ Batch /\ Len(items) = 2
  /\ pc[1] \in ToolPcs /\ pc[2] \in ToolPcs
  /\ session[client[1]] = "open" /\ session[client[2]] = "open"
  /\ client[1] # client[2]

SinglePage == op \in {"extract_snapshot", "take_screenshot"}

\* The calls of one single-page operation, as the claim lists them.
PageCalls ==
  << [tool |-> "browser_navigate", url |-> args.page_url],
     [tool |-> "browser_wait_for", time |-> 5],
     IF op = "take_screenshot"
     THEN [tool |-> "browser_take_screenshot", type |-> "png"]
     ELSE [tool |-> "browser_snapshot"] >>

\* One session at most, open while a call is in flight and not open any
\* more once the operation has returned or raised; the calls in order; the
\* directory as it was, unless the screenshot has returned image bytes.
SinglePageInOrder ==
  /\ n_sessions <= 1
  /\ n_sessions = 1 <=> session[1] # "none"
  /\ IsPrefix(calls[1], PageCalls)
  /\ calls[1] # <<>> => session[1] # "none"
  /\ pc[1] \in ToolPcs => session[1] = "open"
  /\ status # "pending" => session[1] # "open"
  /\ status = "returned" => session[1] = "closed" /\ calls[1] = PageCalls
  /\ \/ files \in InitialFiles
     \/ /\ op = "take_screenshot"
        /\ Len(calls[1]) = 3 /\ pc[1] # "screenshot"
        /\ Truthy(img[1])
        /\ \E f \in InitialFiles :
             files = [f EXCEPT ![args.filename] = img[1]]

\* C15: extract_snapshot and take_screenshot open exactly one session,
\* navigate and wait before the snapshot or screenshot, and have closed
\* the session when they return or raise; take_screenshot writes its file
\* only after the screenshot call has returned image bytes.
C15_SinglePageLifecycle ==
  /\ [](SinglePage => SinglePageInOrder)
  /\ [][SinglePage => WriteOnlyAfterScreenshot]_vars

\* take_screenshot returned with its file written and its session closed.
C15_Witness ==
  /\ op = "take_screenshot" /\ status = "returned"
  /\ session[1] = "closed" /\ n_sessions = 1
  /\ files[args.filename] = Some(<<65, 66>>)

\* C16: in single_client the snapshot a task returns for item i was taken
\* from tab i showing item i's url: from a task's own select to its
\* navigate and its snapshot the browser stays on that task's tab.
C16_SnapshotFromOwnTab ==
  Shared =>
    \A i \in Frames :
      /\ pc[i] \in {"tab_navigate", "tab_wait", "tab_snapshot"} => tab = i
      /\ ret[i] # None => ret[i][1].snapshot = "page " \o items[i].url

\* C17: when the batch has raised the failure of one task, no other task
\* of it is in flight: none has a session open, none holds a permit or
\* waits for one, and none is still to issue a call.
C17_NothingInFlightAfterRaise ==
  (Batch /\ status = "raised") =>
    /\ \A i \in Frames : session[i] # "open"
    /\ Holders = {}
    /\ sem_value = concurrency_limit
    /\ \A i \in Frames : pc[i] \in {"new", "done", "failed"}

\* C18: when every call in flight ends, a batch task that waits for a
\* permit gets one, whatever the number of requests and permits, and the
\* batch operation returns or raises.
C18_BatchTerminates ==
  /\ \A i \in 1..MaxItems :
       (Batch /\ i \in Frames /\ pc[i] = "waiting")
         ~> (i \in Holders)
  /\ (Batch /\ ctor = "ok" /\ status = "pending") ~> (status # "pending")
  /\ (Batch /\ ctor = "ok") ~> (\A i \in Frames : Ended(i))

\* More requests than permits: a task that queued has been handed the
\* permit of one that ended.
C18_Witness ==
  /\ Batch /\ Len(items) > concurrency_limit
  /\ \E i \in Frames : pc[i] = "woken" /\ sem_waiters = <<>>
  /\ status = "raised"

\* Two tasks of the batch with the same name, both with image bytes.
SameNamePair(i, j) ==
  /\ i # j
  /\ items[i].name = items[j].name
  /\ Truthy(img[i]) /\ Truthy(img[j])

\* The step in which task i writes its file: the file then holds task i's
\* payload and nothing of what it held before.
WriteReplaces(i) ==
  (pc[i] = "screenshot" /\ pc'[i] = "snapshot" /\ Truthy(img'[i])) =>
    files'[items[i].name \o ".png"] = img'[i]

\* A file changes only in a step in which one task writes it.
ChangedByOneWrite(f) ==
  files'[f] # files[f] =>
    \E i \in Frames :
      /\ pc[i] = "screenshot" /\ pc'[i] = "snapshot"
      /\ f = items[i].name \o ".png"
      /\ files'[f] = img'[i]
      /\ \A j \in Frames \ {i} : pc'[j] = pc[j] /\ img'[j] = img[j]

\* C19: two requests of a batch with one name, both with image bytes,
\* write the same file, and the file holds one of the two payloads in
\* full, the one of the later write: a write replaces the whole file in
\* one step of one task.
C19_SameNameLastWriteWins ==
  /\ [](Batch =>
         \A i, j \in Frames :
           SameNamePair(i, j) =>
             /\ Filename(i) = Filename(j)
             /\ files[Filename(i)] \in { img[k] : k \in SameFile(i) })
  /\ [][Batch => /\ \A i \in Frames : WriteReplaces(i)
                 /\ \A f \in FileNames : ChangedByOneWrite(f)]_vars

\* Both tasks named A have ended; the second wrote first, so the file holds
\* the first task's payload and not the second one's.
C19_Witness ==
  /\ Batch /\ Len(items) = 2
  /\ SameNamePair(1, 2)
  /\ pc[1] = "done" /\ pc[2] = "done"
  /\ img[1] # img[2]
  /\ files["A.png"] = img[1]
====
